---------------------------- MODULE Spec2Model ----------------------------
(***************************************************************************)
(* honeylint: the lexer (Lexer.NextToken and its helpers) and the          *)
(* structural check of ParseCondition in main.go.                          *)
(*                                                                         *)
(* The input string is a sequence of bytes (0..255).  The cursor l.pos is  *)
(* kept 0-based as in the Go code; At(in, i) is the Go expression          *)
(* l.input[i].  The error returned by ParseCondition is its message        *)
(* string, with NilError standing for a nil error.                         *)
(***************************************************************************)
EXTENDS Integers, Sequences, FiniteSets, TLC

\* ------------------------------------------------------------------------
\* Bounds of the model.

\* Inputs are concatenations of at most MaxFrags fragments of Fragments.
MaxFrags == 3
\* In LexSpec a caller invokes NextToken at most MaxCalls times on one Lexer.
MaxCalls == 5
\* Under FairSpec the inputs are the strings over FairBytes of length at most
\* MaxFairLen.
MaxFairLen == 3

\* ------------------------------------------------------------------------
\* Byte values of the character literals the code compares against.

ChTab    == 9
ChLF     == 10
ChCR     == 13
ChSpace  == 32
ChBang   == 33
ChLParen == 40
ChRParen == 41
ChComma  == 44
ChLess   == 60
ChEq     == 61
ChGreater == 62
ChTilde  == 126
ChUpperA == 65
ChUpperZ == 90
ChLowerA == 97
ChLowerZ == 122
\* The zero byte peek returns at the end of the input.
NoByte   == 0

\* ------------------------------------------------------------------------
\* type Token and its constants.

ILLEGAL    == "ILLEGAL"
EOF        == "EOF"
WHITESPACE == "WHITESPACE"
AND        == "AND"
OR         == "OR"
NOT        == "NOT"
LPAREN     == "LPAREN"
RPAREN     == "RPAREN"
EQUALS     == "EQUALS"
NOT_EQUALS == "NOT_EQUALS"
REG_MATCH  == "REG_MATCH"
EXISTS     == "EXISTS"
IN_        == "IN"
LT         == "LT"
LTE        == "LTE"
GT         == "GT"
GTE        == "GTE"

Token ==
    { ILLEGAL, EOF, WHITESPACE, AND, OR, NOT, LPAREN, RPAREN, EQUALS,
      NOT_EQUALS, REG_MATCH, EXISTS, IN_, LT, LTE, GT, GTE }

\* var keywords: the map from spelling (as bytes) to Token.
keywords ==
    (<<65, 78, 68>> :> AND) @@
    (<<79, 82>> :> OR) @@
    (<<78, 79, 84>> :> NOT) @@
    (<<61>> :> EQUALS) @@
    (<<33, 61>> :> NOT_EQUALS) @@
    (<<61, 126>> :> REG_MATCH) @@
    (<<69, 88, 73, 83, 84, 83>> :> EXISTS) @@
    (<<73, 78>> :> IN_) @@
    (<<60>> :> LT) @@
    (<<60, 61>> :> LTE) @@
    (<<62>> :> GT) @@
    (<<62, 61>> :> GTE)

\* ------------------------------------------------------------------------
\* The error messages of ParseCondition.

NilError      == "nil"
ErrEmpty      == "Empty condition"
ErrNot        == "NOT operator must be followed by a condition"
ErrParens     == "Mismatched parentheses"
ErrExists     == "EXISTS operator must be followed by a field name"
ErrIn         == "IN operator must be followed by a field name"
ErrRegMatch   == "=~ operator must be followed by a field name"
ErrInvalid    == "Invalid condition"
\* Before ParseCondition has returned.
Pending       == "pending"

\* ------------------------------------------------------------------------
\* Byte access.  An index outside 0..len-1 is a Go run-time panic; the
\* read is recorded by the caller and yields OutOfRange, which is no byte.

OutOfRange == -1

At(in, i) == IF i \in 0..(Len(in) - 1) THEN in[i + 1] ELSE OutOfRange

\* l.input[lo:hi]
Slice(in, lo, hi) == [k \in 1..(hi - lo) |-> in[lo + k]]

SliceOK(in, lo, hi) == 0 <= lo /\ lo <= hi /\ hi <= Len(in)

\* ------------------------------------------------------------------------
\* The lexer.

\* Variant of isLetter whose lower comparisons are strict: 'a' and 'A' are
\* no letters.
isLetterOffByOne(ch) ==
    (ch > ChLowerA /\ ch <= ChLowerZ) \/ (ch > ChUpperA /\ ch <= ChUpperZ)

isLetter(ch) ==
    (ch >= ChLowerA /\ ch <= ChLowerZ) \/ (ch >= ChUpperA /\ ch <= ChUpperZ)

\* Variant of skipWhitespace that does not skip the carriage return.
RECURSIVE skipWhitespaceNoCR(_, _)
skipWhitespaceNoCR(in, p) ==
    IF p < Len(in)
    THEN LET ch == At(in, p)
         IN  IF ch # ChSpace /\ ch # ChTab /\ ch # ChLF
             THEN [pos |-> p, reads |-> {p}]
             ELSE [skipWhitespaceNoCR(in, p + 1) EXCEPT !.reads = @ \cup {p}]
    ELSE [pos |-> p, reads |-> {}]

\* Lexer.skipWhitespace from cursor p: the cursor it leaves and the indices
\* of l.input it read.
RECURSIVE skipWhitespace(_, _)
skipWhitespace(in, p) ==
    IF p < Len(in)
    THEN LET ch == At(in, p)
         IN  IF ch # ChSpace /\ ch # ChTab /\ ch # ChCR /\ ch # ChLF
             THEN [pos |-> p, reads |-> {p}]
             ELSE [skipWhitespace(in, p + 1) EXCEPT !.reads = @ \cup {p}]
    ELSE [pos |-> p, reads |-> {}]

\* Variant of peek whose end test is off by one: the last byte is not seen.
peekEarlyEnd(in, p) ==
    IF p + 1 >= Len(in)
    THEN [ch |-> NoByte, reads |-> {}]
    ELSE [ch |-> At(in, p), reads |-> {p}]

\* Lexer.peek at cursor p: the byte and the indices read.
peek(in, p) ==
    IF p >= Len(in)
    THEN [ch |-> NoByte, reads |-> {}]
    ELSE [ch |-> At(in, p), reads |-> {p}]

\* Variant of the loop below without the test l.pos < len(l.input).
RECURSIVE letterRunUnchecked(_, _)
letterRunUnchecked(in, p) ==
    IF isLetter(At(in, p))
    THEN [letterRunUnchecked(in, p + 1) EXCEPT !.reads = @ \cup {p}]
    ELSE [pos |-> p, reads |-> {p}]

\* The loop of readKeyword: advance the cursor over letters.
RECURSIVE letterRun(_, _)
letterRun(in, p) ==
    IF p < Len(in)
    THEN IF isLetter(At(in, p))
         THEN [letterRun(in, p + 1) EXCEPT !.reads = @ \cup {p}]
         ELSE [pos |-> p, reads |-> {p}]
    ELSE [pos |-> p, reads |-> {}]

\* Lexer.readKeyword with the cursor at p (one past the first letter).
readKeyword(in, p) ==
    LET start == p - 1
        run   == letterRun(in, p)
        word  == IF SliceOK(in, start, run.pos)
                 THEN Slice(in, start, run.pos) ELSE <<>>
    IN  [tok    |-> IF word \in DOMAIN keywords THEN keywords[word] ELSE ILLEGAL,
         pos    |-> run.pos,
         reads  |-> run.reads,
         slices |-> {<<start, run.pos>>}]

\* A two-character operator: the case bodies of '=', '!', '<' and '>'.
\* p is the cursor after l.pos++.
lookahead(in, p, second, two, one) ==
    LET pk == peek(in, p)
    IN  IF pk.ch = second
        THEN [tok |-> two, pos |-> p + 1, reads |-> pk.reads, slices |-> {}]
        ELSE [tok |-> one, pos |-> p, reads |-> pk.reads, slices |-> {}]

\* The switch of NextToken on the byte ch, with the cursor p already past it.
switchOn(in, ch, p) ==
    LET single(t) == [tok |-> t, pos |-> p, reads |-> {}, slices |-> {}]
    IN  CASE ch = ChLParen  -> single(LPAREN)
          [] ch = ChRParen  -> single(RPAREN)
          [] ch = ChEq      -> lookahead(in, p, ChTilde, REG_MATCH, EQUALS)
          [] ch = ChBang    -> lookahead(in, p, ChEq, NOT_EQUALS, NOT)
          [] ch = ChComma   -> single(WHITESPACE)
          [] ch = ChLess    -> lookahead(in, p, ChEq, LTE, LT)
          [] ch = ChGreater -> lookahead(in, p, ChEq, GTE, GT)
          [] OTHER          -> IF isLetter(ch)
                               THEN readKeyword(in, p)
                               ELSE single(ILLEGAL)

\* Lexer.NextToken from cursor p: the token returned, the cursor left, the
\* cursor after skipWhitespace, the indices of l.input read and the slices
\* taken.
NextToken(in, p) ==
    LET ws == skipWhitespace(in, p)
    IN  IF ws.pos >= Len(in)
        THEN [tok |-> EOF, pos |-> ws.pos, wsEnd |-> ws.pos,
              reads |-> ws.reads, slices |-> {}]
        ELSE LET ch == At(in, ws.pos)
                 sw == switchOn(in, ch, ws.pos + 1)
             IN  [tok |-> sw.tok, pos |-> sw.pos, wsEnd |-> ws.pos,
                  reads |-> ws.reads \cup {ws.pos} \cup sw.reads,
                  slices |-> sw.slices]

\* Whether a call of NextToken ran without an index or slice out of range.
NoPanic(in, r) ==
    /\ r.reads \subseteq 0..(Len(in) - 1)
    /\ \A s \in r.slices : SliceOK(in, s[1], s[2])


\* ------------------------------------------------------------------------
\* ParseCondition: the structural check of the collected tokens.

\* Variant of loopExit that compares with the wrong constant.
loopExitOnIllegal(token) == token = ILLEGAL

\* The test that ends the collecting loop.
loopExit(token) == token = EOF

\* Variant of checkNot that requires a closing last token whatever the
\* second token is.
checkNotAlwaysLast(toks) ==
    IF Len(toks) = 1
    THEN ErrNot
    ELSE IF toks[Len(toks)] # RPAREN THEN ErrParens ELSE NilError

\* The branch tokens[0] == NOT.
checkNot(toks) ==
    IF Len(toks) = 1
    THEN ErrNot
    ELSE IF toks[2] = LPAREN
         THEN IF toks[Len(toks)] # RPAREN THEN ErrParens ELSE NilError
         ELSE NilError

\* Variant of checkParen that lets a stream of one token through.
checkParenNonEmpty(toks) ==
    IF Len(toks) > 1 /\ toks[Len(toks)] # RPAREN THEN ErrParens ELSE NilError

\* The branch tokens[0] == LPAREN.
checkParen(toks) ==
    IF toks[Len(toks)] # RPAREN THEN ErrParens ELSE NilError

\* Variant of checkOperand that only tests the length.
checkOperandLenOnly(toks, msg) ==
    IF Len(toks) = 1 THEN msg ELSE NilError

\* The branches tokens[0] == EXISTS, IN and REG_MATCH, which differ only in
\* the message.
checkOperand(toks, msg) ==
    IF Len(toks) = 1
    THEN msg
    ELSE IF toks[2] # WHITESPACE THEN msg ELSE NilError

\* Variant of checkIllegal that looks at every token.
checkIllegalAnywhere(toks) ==
    IF \E i \in 1..Len(toks) : toks[i] = ILLEGAL THEN ErrInvalid ELSE NilError

\* The branch tokens[0] == ILLEGAL and the fall through of the chain.
checkIllegal(toks) ==
    IF toks[1] = ILLEGAL THEN ErrInvalid ELSE NilError

\* The checks of ParseCondition on the collected tokens: the error returned.
validate(toks) ==
    IF Len(toks) = 0
    THEN ErrEmpty
    ELSE LET first ==
                 IF toks[1] = NOT THEN checkNot(toks)
                 ELSE IF toks[1] = LPAREN THEN checkParen(toks)
                 ELSE IF toks[1] = EXISTS THEN checkOperand(toks, ErrExists)
                 ELSE IF toks[1] = IN_ THEN checkOperand(toks, ErrIn)
                 ELSE IF toks[1] = REG_MATCH THEN checkOperand(toks, ErrRegMatch)
                 ELSE checkIllegal(toks)
         IN  IF first # NilError
             THEN first
             ELSE IF Len(toks) = 0 THEN ErrEmpty ELSE NilError

\* The string ParseCondition returns with error e.
returned(in, e) == IF e = NilError THEN in ELSE <<>>

\* ------------------------------------------------------------------------
\* Inputs.

\* The spellings "AND", "OR", "NOT", "EXISTS", "IN", and "and", "foo".
WordAnd    == <<65, 78, 68>>
WordOr     == <<79, 82>>
WordNot    == <<78, 79, 84>>
WordExists == <<69, 88, 73, 83, 84, 83>>
WordIn     == <<73, 78>>
WordLower  == <<97, 110, 100>>
WordFoo    == <<102, 111, 111>>

Fragments ==
    { <<ChSpace>>, <<ChTab>>, <<ChCR>>, <<ChLF>>,
      <<ChLParen>>, <<ChRParen>>, <<ChComma>>,
      <<ChEq>>, <<ChTilde>>, <<ChBang>>, <<ChLess>>, <<ChGreater>>,
      <<49>>, <<123>>, <<195>>,
      <<ChUpperA>>, <<ChLowerZ>>,
      WordAnd, WordOr, WordNot, WordExists, WordIn, WordLower }

\* "EXISTS foo", "NOT (foo)", "(A AND B", "123abc", "= ~", "((foo)".
ExExistsFoo  == WordExists \o <<ChSpace>> \o WordFoo
ExNotParen   == WordNot \o <<ChSpace, ChLParen>> \o WordFoo \o <<ChRParen>>
ExUnbalanced == <<ChLParen, ChUpperA, ChSpace>> \o WordAnd \o <<ChSpace, 66>>
ExDigits     == <<49, 50, 51, 97, 98, 99>>
ExEqTilde    == <<ChEq, ChSpace, ChTilde>>
ExNested     == <<ChLParen, ChLParen>> \o WordFoo \o <<ChRParen>>

Examples ==
    { ExExistsFoo, ExNotParen, ExUnbalanced, ExDigits, ExEqTilde, ExNested }

\* The concatenation of the fragments fs[1], ..., fs[n].
RECURSIVE Concat(_, _)
Concat(fs, n) == IF n = 0 THEN <<>> ELSE Concat(fs, n - 1) \o fs[n]

\* The inputs made of exactly n fragments.
FragInputs(n) == { Concat(fs, n) : fs \in [1..n -> Fragments] }

\* A space, a parenthesis, the two bytes of an operator, a letter, a digit.
FairBytes == { ChSpace, ChLParen, ChEq, ChTilde, ChUpperA, 49 }

\* The inputs of exactly n bytes of FairBytes.
FairInputs(n) == [1..n -> FairBytes]

\* ------------------------------------------------------------------------
\* State.

VARIABLES
    input,   \* Lexer.input, the argument of ParseCondition
    pos,     \* Lexer.pos
    tokens,  \* the slice tokens of ParseCondition
    pc,      \* "idle": nothing called yet; "scan": in the collecting loop
             \* of ParseCondition; "check": after it; "done": returned;
             \* "panic": a run-time panic; "lexer": a Lexer in the hands of
             \* a caller
    out,     \* the string ParseCondition returned
    err,     \* the error ParseCondition returned
    last,    \* the last call of NextToken: the token it returned (tok), the
             \* cursor it started from (from) and had after skipWhitespace
             \* (wsEnd), the indices read, the slices taken, and the token
             \* the call before it returned (prev)
    calls    \* the number of NextToken calls a caller of the Lexer has made

vars == <<input, pos, tokens, pc, out, err, last, calls>>

NoCall == "none"

NoCalls ==
    [tok |-> NoCall, prev |-> NoCall, from |-> 0, wsEnd |-> 0,
     reads |-> {}, slices |-> {}]

\* Before any call.
Init ==
    /\ input = <<>>
    /\ pos = 0
    /\ tokens = <<>>
    /\ pc = "idle"
    /\ out = <<>>
    /\ err = Pending
    /\ last = NoCalls
    /\ calls = 0

\* NewLexer(in): a Lexer on in with pos = 0.
NewLexer(in) ==
    /\ input' = in
    /\ pos' = 0
    /\ last' = NoCalls
    /\ calls' = 0

\* One call l.NextToken(): the new cursor and the record of the call.
Call(r) ==
    /\ pos' = r.pos
    /\ last' = [tok |-> r.tok, prev |-> last.tok, from |-> pos,
                wsEnd |-> r.wsEnd, reads |-> r.reads, slices |-> r.slices]

\* One iteration of the collecting loop of ParseCondition.
Scan ==
    /\ pc = "scan"
    /\ \E r \in {NextToken(input, pos)} :
           /\ Call(r)
           /\ IF ~NoPanic(input, r)
              THEN tokens' = tokens /\ pc' = "panic"
              ELSE IF loopExit(r.tok)
                   THEN tokens' = tokens /\ pc' = "check"
                   ELSE tokens' = Append(tokens, r.tok) /\ pc' = "scan"
    /\ UNCHANGED <<input, out, err, calls>>

\* The checks after the loop, and the return.
Check ==
    /\ pc = "check"
    /\ err' = validate(tokens)
    /\ out' = returned(input, validate(tokens))
    /\ pc' = "done"
    /\ UNCHANGED <<input, pos, tokens, last, calls>>

\* A Lexer is created on one of the inputs of the model.
NewLexerOnInput ==
    \/ \E n \in 0..MaxFrags : \E in \in FragInputs(n) : NewLexer(in)
    \/ \E in \in Examples : NewLexer(in)

\* ParseCondition(in) is called and creates its Lexer.
Begin ==
    /\ pc = "idle"
    /\ NewLexerOnInput
    /\ tokens' = <<>>
    /\ pc' = "scan"
    /\ UNCHANGED <<out, err>>

Next == Begin \/ Scan \/ Check

Spec == Init /\ [][Next]_vars

\* The same call on the smaller set of inputs of the fair specification.
FairBegin ==
    /\ pc = "idle"
    /\ \/ \E n \in 0..MaxFairLen : \E in \in FairInputs(n) : NewLexer(in)
       \/ \E in \in Examples : NewLexer(in)
    /\ tokens' = <<>>
    /\ pc' = "scan"
    /\ UNCHANGED <<out, err>>

FairNext == FairBegin \/ Scan \/ Check

\* ParseCondition is one sequential call: once called it keeps running until
\* it returns.
FairSpec == Init /\ [][FairNext]_vars /\ WF_vars(Scan \/ Check)

\* A caller that creates a Lexer and calls NextToken on it repeatedly.
LexBegin ==
    /\ pc = "idle"
    /\ NewLexerOnInput
    /\ pc' = "lexer"
    /\ UNCHANGED <<tokens, out, err>>

LexCall ==
    /\ pc = "lexer"
    /\ calls < MaxCalls
    /\ \E r \in {NextToken(input, pos)} :
           /\ Call(r)
           /\ pc' = IF NoPanic(input, r) THEN "lexer" ELSE "panic"
    /\ calls' = calls + 1
    /\ UNCHANGED <<input, tokens, out, err>>

LexNext == LexBegin \/ LexCall

LexSpec == Init /\ [][LexNext]_vars

\* ------------------------------------------------------------------------
\* The claims.  The characterisations below are written on the bytes of the
\* input, independently of the lexer's operators.

ClWs == { 9, 10, 13, 32 }

ClAllWs(in) == \A i \in 1..Len(in) : in[i] \in ClWs

ClAlpha(b) == b \in (65..90) \cup (97..122)

\* The 1-based index of the first byte that is no whitespace (Len + 1 if
\* there is none).
ClStart(in) ==
    CHOOSE i \in 1..(Len(in) + 1) :
        /\ \A j \in 1..(i - 1) : in[j] \in ClWs
        /\ i = Len(in) + 1 \/ in[i] \notin ClWs

\* The maximal run of letters that starts at index i.
ClRun(in, i) ==
    LET e == CHOOSE k \in i..Len(in) :
                 /\ \A j \in i..k : ClAlpha(in[j])
                 /\ k = Len(in) \/ ~ClAlpha(in[k + 1])
    IN  SubSeq(in, i, e)

ClKeywords == { WordAnd, WordOr, WordNot, WordExists, WordIn }

Returned == pc = "done"

Collected == pc \in {"check", "done"}

\* C1: for every input the collecting loop of ParseCondition ends (a call
\* that has started scanning reaches the checks after the loop), without a
\* panic; the stream never holds more tokens than the input has bytes,
\* because every NextToken call that returns a token other than EOF leaves
\* the cursor at least one byte further.
C1_LoopTerminates ==
    /\ (pc = "scan") ~> (pc = "check")
    /\ [](pc # "panic")
    /\ [](Len(tokens) <= pos /\ pos <= Len(input))
    /\ [](last.tok \notin {NoCall, EOF} => pos >= last.from + 1)

\* C1 witness: the loop has ended with as many tokens as the input has bytes.
C1_Witness ==
    pc = "check" /\ Len(input) >= 3 /\ Len(tokens) = Len(input)

ClExistsField(in) ==
    /\ Len(in) >= 8
    /\ SubSeq(in, 1, 6) = WordExists
    /\ \E k \in 7..(Len(in) - 1) :
           /\ \A i \in 7..k : in[i] \in ClWs
           /\ \A i \in (k + 1)..Len(in) : ClAlpha(in[i])

\* C2: ParseCondition accepts "EXISTS foo" and every input made of EXISTS,
\* whitespace and a field name written as a run of letters.
C2_ExistsFieldAccepted ==
    (Returned /\ ClExistsField(input)) => (err = NilError /\ out = input)

\* C3: when the first token is none of NOT, LPAREN, EXISTS, IN, REG_MATCH,
\* ILLEGAL (so it is one of the ten other kinds), ParseCondition returns the
\* input unchanged and a nil error, whatever tokens follow.
C3_OtherFirstTokenAccepted ==
    (Returned /\ tokens # <<>>
         /\ tokens[1] \notin {NOT, LPAREN, EXISTS, IN_, REG_MATCH, ILLEGAL})
    => /\ tokens[1] \in {WHITESPACE, AND, OR, RPAREN, EQUALS, NOT_EQUALS,
                         LT, LTE, GT, GTE}
       /\ err = NilError
       /\ out = input

\* C3 witness: accepted with first token AND although an ILLEGAL token and an
\* unclosed parenthesis follow.
C3_Witness ==
    /\ Returned /\ Len(tokens) = 3
    /\ tokens[1] = AND /\ tokens[2] = LPAREN /\ tokens[3] = ILLEGAL
    /\ err = NilError /\ out = input

\* C4: ParseCondition returns "Empty condition" exactly when the input has
\* no byte other than space, tab, carriage return and newline; exactly then
\* the token stream is empty; EOF is never an element of a token stream.
C4_EmptyCondition ==
    /\ Returned => ((err = ErrEmpty) <=> ClAllWs(input))
    /\ Collected => ((tokens = <<>>) <=> ClAllWs(input))
    /\ \A i \in 1..Len(tokens) : tokens[i] # EOF

\* C4 witness: "Empty condition" for an input of three whitespace bytes, a
\* carriage return and a tab among them.
C4_Witness ==
    /\ Returned /\ err = ErrEmpty /\ Len(input) = 3
    /\ \E i, j \in 1..3 : input[i] = 13 /\ input[j] = 9

ClStartsWithNot(in) ==
    LET i == ClStart(in)
    IN  /\ i <= Len(in)
        /\ \/ ClAlpha(in[i]) /\ ClRun(in, i) = WordNot
           \/ in[i] = 33 /\ ~(i < Len(in) /\ in[i + 1] = 61)

\* C5: the first token is NOT exactly when the input starts (after
\* whitespace) with the word NOT or with a '!' not followed by '='.  Then a
\* stream of length 1 is rejected with the NOT message; a stream whose
\* second token is LPAREN is accepted if its last token is RPAREN and
\* rejected with "Mismatched parentheses" otherwise; any other stream is
\* accepted.
C5_NotRule ==
    /\ (Collected /\ tokens # <<>>)
       => ((tokens[1] = NOT) <=> ClStartsWithNot(input))
    /\ (Returned /\ tokens # <<>> /\ tokens[1] = NOT)
       => err = IF Len(tokens) = 1 THEN ErrNot
                ELSE IF tokens[2] # LPAREN THEN NilError
                ELSE IF tokens[Len(tokens)] = RPAREN THEN NilError
                ELSE ErrParens

\* C5 witness: "NOT (foo)" is accepted.
C5_Witness ==
    /\ Returned /\ input = ExNotParen
    /\ tokens = <<NOT, LPAREN, ILLEGAL, RPAREN>>
    /\ err = NilError

\* C6: when the first token is LPAREN, ParseCondition succeeds exactly when
\* the last token is RPAREN and returns "Mismatched parentheses" otherwise;
\* the one-token stream is rejected.
C6_ParenRule ==
    (Returned /\ tokens # <<>> /\ tokens[1] = LPAREN)
    => /\ (err = NilError) <=> (tokens[Len(tokens)] = RPAREN)
       /\ err \in {NilError, ErrParens}
       /\ Len(tokens) = 1 => err = ErrParens

\* C6 witness: "(A AND B" is rejected with "Mismatched parentheses".
C6_Witness ==
    Returned /\ input = ExUnbalanced /\ tokens[1] = LPAREN /\ err = ErrParens

ClOperandMessage(t) ==
    IF t = EXISTS THEN ErrExists ELSE IF t = IN_ THEN ErrIn ELSE ErrRegMatch

\* C7: when the first token is EXISTS, IN or REG_MATCH, ParseCondition
\* succeeds exactly when the stream is longer than 1 and its second token is
\* WHITESPACE, and otherwise returns the message of that operator; NextToken
\* returns WHITESPACE exactly for a comma.
C7_OperandRule ==
    /\ (Returned /\ tokens # <<>> /\ tokens[1] \in {EXISTS, IN_, REG_MATCH})
       => /\ (err = NilError)
             <=> (Len(tokens) > 1 /\ tokens[2] = WHITESPACE)
          /\ err \in {NilError, ClOperandMessage(tokens[1])}
    /\ last.tok # NoCall
       => ((last.tok = WHITESPACE)
           <=> (last.wsEnd < Len(input) /\ input[last.wsEnd + 1] = 44))

\* C7 witness: IN followed by a comma and some other token is accepted.
C7_Witness ==
    /\ Returned /\ Len(tokens) = 3
    /\ tokens[1] = IN_ /\ tokens[2] = WHITESPACE
    /\ err = NilError

ClIllegalStart(in) ==
    LET i == ClStart(in)
        b == in[i]
    IN  /\ i <= Len(in)
        /\ \/ b \in 48..57
           \/ b \in 128..255
           \/ /\ b \in 0..127
              /\ ~ClAlpha(b)
              /\ b \notin (48..57) \cup ClWs \cup {40, 41, 44, 61, 33, 60, 62}
           \/ ClAlpha(b) /\ ClRun(in, i) \notin ClKeywords

\* C8: ParseCondition returns "Invalid condition" exactly when the first
\* token is ILLEGAL, and the first token is ILLEGAL exactly when the first
\* byte that is no whitespace is a digit, a non-ASCII byte, a symbol other
\* than ( ) , = ! < >, or the start of a maximal run of letters that is
\* none of AND, OR, NOT, EXISTS, IN.
C8_InvalidCondition ==
    /\ Returned
       => ((err = ErrInvalid) <=> (tokens # <<>> /\ tokens[1] = ILLEGAL))
    /\ (Collected /\ tokens # <<>>)
       => ((tokens[1] = ILLEGAL) <=> ClIllegalStart(input))

\* C8 witness: "123abc" is rejected with "Invalid condition".
C8_Witness ==
    Returned /\ input = ExDigits /\ tokens[1] = ILLEGAL /\ err = ErrInvalid

ClOne(b) ==
    IF b = 61 THEN EQUALS ELSE IF b = 33 THEN NOT
    ELSE IF b = 60 THEN LT ELSE GT

ClTwo(b) ==
    IF b = 61 THEN REG_MATCH ELSE IF b = 33 THEN NOT_EQUALS
    ELSE IF b = 60 THEN LTE ELSE GTE

ClSecond(b) == IF b = 61 THEN 126 ELSE 61

\* C9: when NextToken meets '=', '!', '<' or '>' after the whitespace, it
\* consumes the next byte only if that byte completes '=~', '!=', '<=' or
\* '>=': then the cursor is 2 past the whitespace and the two-character kind
\* is returned; otherwise the cursor is 1 past it and EQUALS, NOT, LT or GT is
\* returned, so that the next call starts at the unmatched byte.
C9_Lookahead ==
    /\ (last.tok \notin {NoCall, EOF} /\ last.wsEnd < Len(input)
            /\ input[last.wsEnd + 1] \in {61, 33, 60, 62})
       => LET b == input[last.wsEnd + 1]
              completed == /\ last.wsEnd + 2 <= Len(input)
                           /\ input[last.wsEnd + 2] = ClSecond(b)
          IN  IF completed
              THEN pos = last.wsEnd + 2 /\ last.tok = ClTwo(b)
              ELSE pos = last.wsEnd + 1 /\ last.tok = ClOne(b)
    /\ (last.prev \in {EQUALS, NOT, LT, GT} /\ last.from >= 1
            /\ input[last.from] \in {61, 33, 60, 62})
       => /\ last.prev = ClOne(input[last.from])
          /\ last.from < Len(input)
             => input[last.from + 1] # ClSecond(input[last.from])

\* C9 witness: in "= ~" the '=' was returned as EQUALS and the '~' after the
\* space is scanned as a token of its own.
C9_Witness ==
    /\ input = ExEqTilde
    /\ last.prev = EQUALS /\ last.from = 1
    /\ last.tok = ILLEGAL /\ last.wsEnd = 2 /\ pos = 3

\* C10: during a scan 0 <= pos <= len(input) and pos never decreases; every
\* byte read is at an index below len(input); the slice readKeyword takes
\* starts one before the cursor it was called with, at an index >= 0;
\* NextToken returns EOF only with pos = len(input); after EOF every later
\* call returns EOF and leaves pos unchanged.
C10_CursorInvariant ==
    /\ pc # "panic"
    /\ 0 <= pos /\ pos <= Len(input)
    /\ last.from <= last.wsEnd /\ last.wsEnd <= pos
    /\ \A i \in last.reads : 0 <= i /\ i < Len(input)
    /\ \A s \in last.slices : s[1] = last.wsEnd /\ s[1] >= 0 /\ s[2] = pos
    /\ last.tok = EOF => pos = Len(input)
    /\ last.prev = EOF => (last.tok = EOF /\ pos = last.from)

\* C10 witness: a second EOF from a Lexer whose input ended in a word.
C10_Witness ==
    /\ pc = "lexer" /\ Len(input) > 0 /\ ClAlpha(input[Len(input)])
    /\ last.prev = EOF /\ last.tok = EOF /\ pos = Len(input)

=============================================================================
